---- MODULE Spec2Model ----
(***************************************************************************)
(* YAMLLocalDataSet (kedro/contrib/io/yaml_local/yaml_local.py): a data    *)
(* set that saves a mapping to a local YAML file with yaml.dump and loads  *)
(* it back with yaml.safe_load.  The model has three layers:               *)
(*   - the codec: values, YAML text as a sequence of tokens, Dump, Parse;  *)
(*   - the file system: directories, regular files, open-for-write         *)
(*     truncation, writes at a handle's own offset;                        *)
(*   - the data set: construction, _describe, _load, _save, _exists, run   *)
(*     step by step by one caller (Spec) or by two callers (SpecConc).     *)
(***************************************************************************)
EXTENDS Integers, Sequences, FiniteSets, TLC

(***************************************************************************)
(* Bounds of the model.                                                    *)
(***************************************************************************)
\* Versions are 1..MaxVersion; a larger number is a later timestamp.
MaxVersion == 2
\* Calls made in one behaviour, over all callers.
MaxCalls == 3

(***************************************************************************)
(* Values: what a payload is made of.  Every value is a record with the    *)
(* same three fields, t (type), s (scalar text), v (children).             *)
(***************************************************************************)
IntVal(s) == [t |-> "int", s |-> s, v |-> <<>>]
StrVal(s) == [t |-> "str", s |-> s, v |-> <<>>]
NoneVal == [t |-> "none", s |-> "", v |-> <<>>]
List(items) == [t |-> "list", s |-> "", v |-> items]
Tuple(items) == [t |-> "tuple", s |-> "", v |-> items]
\* A generator object: yaml.dump has no representation for it.
Generator == [t |-> "generator", s |-> "", v |-> <<>>]
Pair(key, val) == [t |-> "pair", s |-> "", v |-> <<key, val>>]
\* A mapping: its pairs in key order, no key twice (dict equality is then
\* equality of the sequences).
Map(pairs) == [t |-> "map", s |-> "", v |-> pairs]

\* Scalar texts the resolver reads as integers when they stand plain.
IntLike == {"1", "2", "3"}
\* Texts that cannot stand plain inside a flow collection (they hold ", ").
FlowUnsafe == {"Hello, World!"}
\* The order of scalar texts (that of the characters' code points).
TextOrder == <<"1", "2", "3", "Hello, World!", "a", "a_list", "a_string", "null">>

TextRank(s) == CHOOSE i \in 1..Len(TextOrder) : TextOrder[i] = s
KeyRank(key) == 2 * TextRank(key.s) + (IF key.t = "str" THEN 1 ELSE 0)

(***************************************************************************)
(* YAML text: a sequence of tokens.                                        *)
(***************************************************************************)
Plain(s) == [k |-> "plain", s |-> s]
Quoted(s) == [k |-> "quoted", s |-> s]
Ind(s) == [k |-> "ind", s |-> s]
NL == [k |-> "nl", s |-> ""]
Tag(s) == [k |-> "tag", s |-> s]
DocStart == [k |-> "start", s |-> "---"]
EOF == [k |-> "eof", s |-> ""]

RECURSIVE Concat(_)
Concat(seqs) == IF seqs = <<>> THEN <<>> ELSE Head(seqs) \o Concat(Tail(seqs))

(***************************************************************************)
(* yaml.dump: represent the whole payload as nodes first (this is where an *)
(* unrepresentable object raises), then emit the text.                     *)
(***************************************************************************)
RECURSIVE Representable(_)
Representable(val) ==
    /\ val.t # "generator"
    /\ \A i \in 1..Len(val.v) : Representable(val.v[i])

\* A string that the resolver would read back as another type, or that holds
\* flow indicators inside a flow collection, is written quoted.
ScalarToken(val, inflow) ==
    IF val.t = "int" THEN Plain(val.s)
    ELSE IF val.t = "none" THEN Plain("null")
    ELSE IF val.s \in IntLike \cup {"null"} THEN Quoted(val.s)
    ELSE IF inflow /\ val.s \in FlowUnsafe THEN Quoted(val.s)
    ELSE Plain(val.s)

EmitFlowSeq(items) ==
    <<Ind("[")>>
    \o Concat([i \in 1..Len(items) |->
                 (IF i > 1 THEN <<Ind(",")>> ELSE <<>>) \o <<ScalarToken(items[i], TRUE)>>])
    \o <<Ind("]")>>

EmitFlowValue(val) ==
    IF val.t = "list" THEN EmitFlowSeq(val.v)
    ELSE IF val.t = "tuple" THEN <<Tag("!!python/tuple")>> \o EmitFlowSeq(val.v)
    ELSE <<ScalarToken(val, TRUE)>>

EmitFlowMap(pairs) ==
    <<Ind("{")>>
    \o Concat([i \in 1..Len(pairs) |->
                 (IF i > 1 THEN <<Ind(",")>> ELSE <<>>)
                 \o <<ScalarToken(pairs[i].v[1], TRUE), Ind(":")>>
                 \o EmitFlowValue(pairs[i].v[2])])
    \o <<Ind("}")>>

EmitBlockSeq(items) ==
    Concat([i \in 1..Len(items) |-> <<Ind("-"), ScalarToken(items[i], FALSE), NL>>])

\* What follows "key:" in a block mapping.  An empty collection is always
\* written in flow form.
EmitBlockValue(val) ==
    IF val.t \in {"list", "tuple"}
    THEN (IF val.t = "tuple" THEN <<Tag("!!python/tuple")>> ELSE <<>>)
         \o (IF val.v = <<>> THEN <<Ind("["), Ind("]"), NL>>
             ELSE <<NL>> \o EmitBlockSeq(val.v))
    ELSE <<ScalarToken(val, FALSE), NL>>

EmitBlockMap(pairs) ==
    Concat([i \in 1..Len(pairs) |->
              <<ScalarToken(pairs[i].v[1], FALSE), Ind(":")>> \o EmitBlockValue(pairs[i].v[2])])

\* Serialization options: a function from option names to booleans.
Opt(opts, name) == IF name \in DOMAIN opts THEN opts[name] ELSE FALSE

\* The text yaml.dump(data, stream, **opts) writes for a representable mapping.
Emit(data, opts) ==
    LET flow == Opt(opts, "default_flow_style") \/ data.v = <<>>
        body == IF flow THEN EmitFlowMap(data.v) \o <<NL>> ELSE EmitBlockMap(data.v)
        start == IF ~Opt(opts, "explicit_start") THEN <<>>
                 ELSE IF flow THEN <<DocStart>> ELSE <<DocStart, NL>>
    IN  start \o body

(***************************************************************************)
(* yaml.safe_load: parse one document; plain scalars are resolved to       *)
(* integers and null, python tags are refused.  The grammar covers what    *)
(* Emit writes (a mapping whose values are scalars or sequences of         *)
(* scalars), documents cut short, and the empty document; any other text   *)
(* is a parse error.                                                       *)
(***************************************************************************)
Tok(toks, i) == IF i <= Len(toks) THEN toks[i] ELSE EOF
IsScalarTok(tok) == tok.k \in {"plain", "quoted"}
ScalarOf(tok) ==
    IF tok.k = "quoted" THEN StrVal(tok.s)
    ELSE IF tok.s \in IntLike THEN IntVal(tok.s)
    ELSE IF tok.s = "null" THEN NoneVal
    ELSE StrVal(tok.s)

Fail == [ok |-> FALSE, val |-> NoneVal, next |-> 0]
Got(val, next) == [ok |-> TRUE, val |-> val, next |-> next]

\* A dict assignment d[key] = val on the sorted pairs of a mapping.
DictPut(pairs, key, val) ==
    IF \E i \in 1..Len(pairs) : pairs[i].v[1] = key
    THEN [i \in 1..Len(pairs) |-> IF pairs[i].v[1] = key THEN Pair(key, val) ELSE pairs[i]]
    ELSE LET before == SelectSeq(pairs, LAMBDA p : KeyRank(p.v[1]) < KeyRank(key))
             after == SelectSeq(pairs, LAMBDA p : KeyRank(p.v[1]) > KeyRank(key))
         IN  before \o <<Pair(key, val)>> \o after

\* toks[i] is the first token after "[" or after ",".
RECURSIVE ParseFlowSeq(_, _, _)
ParseFlowSeq(toks, i, acc) ==
    IF acc = <<>> /\ Tok(toks, i) = Ind("]") THEN Got(List(acc), i + 1)
    ELSE IF ~IsScalarTok(Tok(toks, i)) THEN Fail
    ELSE LET items == Append(acc, ScalarOf(Tok(toks, i)))
         IN  IF Tok(toks, i + 1) = Ind(",") THEN ParseFlowSeq(toks, i + 2, items)
             ELSE IF Tok(toks, i + 1) = Ind("]") THEN Got(List(items), i + 2)
             ELSE Fail

\* toks[i] is the first token after "{" or after ",".
RECURSIVE ParseFlowMap(_, _, _)
ParseFlowMap(toks, i, acc) ==
    IF acc = <<>> /\ Tok(toks, i) = Ind("}") THEN Got(Map(acc), i + 1)
    ELSE IF ~(IsScalarTok(Tok(toks, i)) /\ Tok(toks, i + 1) = Ind(":")) THEN Fail
    ELSE LET key == ScalarOf(Tok(toks, i))
             val == IF IsScalarTok(Tok(toks, i + 2)) THEN Got(ScalarOf(Tok(toks, i + 2)), i + 3)
                    ELSE IF Tok(toks, i + 2) = Ind("[") THEN ParseFlowSeq(toks, i + 3, <<>>)
                    ELSE Fail
         IN  IF ~val.ok THEN Fail
             ELSE LET pairs == DictPut(acc, key, val.val)
                  IN  IF Tok(toks, val.next) = Ind(",") THEN ParseFlowMap(toks, val.next + 1, pairs)
                      ELSE IF Tok(toks, val.next) = Ind("}") THEN Got(Map(pairs), val.next + 1)
                      ELSE Fail

\* The end of a line: a line break, or the end of the text.
EndOfLine(toks, i) ==
    IF Tok(toks, i) = NL THEN Got(NoneVal, i + 1)
    ELSE IF Tok(toks, i) = EOF THEN Got(NoneVal, i)
    ELSE Fail

\* toks[i] is where a "- item" line may start.
RECURSIVE ParseBlockSeq(_, _, _)
ParseBlockSeq(toks, i, acc) ==
    IF Tok(toks, i) # Ind("-") THEN Got(List(acc), i)
    ELSE LET hasItem == IsScalarTok(Tok(toks, i + 1))
             item == IF hasItem THEN ScalarOf(Tok(toks, i + 1)) ELSE NoneVal
             eol == EndOfLine(toks, IF hasItem THEN i + 2 ELSE i + 1)
         IN  IF ~eol.ok THEN Fail
             ELSE ParseBlockSeq(toks, eol.next, Append(acc, item))

\* toks[i] is where a "key: value" entry may start.
RECURSIVE ParseBlockMap(_, _, _)
ParseBlockMap(toks, i, acc) ==
    IF Tok(toks, i) = EOF THEN Got(Map(acc), i)
    ELSE IF ~(IsScalarTok(Tok(toks, i)) /\ Tok(toks, i + 1) = Ind(":")) THEN Fail
    ELSE LET key == ScalarOf(Tok(toks, i))
             first == Tok(toks, i + 2)
             flowseq == ParseFlowSeq(toks, i + 3, <<>>)
             val == IF first = EOF THEN Got(NoneVal, i + 2)
                    ELSE IF first = NL
                         THEN (IF Tok(toks, i + 3) = Ind("-")
                               THEN ParseBlockSeq(toks, i + 3, <<>>)
                               ELSE Got(NoneVal, i + 3))
                    ELSE IF first = Ind("[")
                         THEN (IF ~flowseq.ok \/ ~EndOfLine(toks, flowseq.next).ok THEN Fail
                               ELSE Got(flowseq.val, EndOfLine(toks, flowseq.next).next))
                    ELSE IF IsScalarTok(first)
                         THEN (IF ~EndOfLine(toks, i + 3).ok THEN Fail
                               ELSE Got(ScalarOf(first), EndOfLine(toks, i + 3).next))
                    ELSE Fail
         IN  IF ~val.ok THEN Fail
             ELSE ParseBlockMap(toks, val.next, DictPut(acc, key, val.val))

\* yaml.safe_load(stream) on the whole text of a file.
Parse(text) ==
    LET skip == IF Tok(text, 1) # DocStart THEN 1
                ELSE IF Tok(text, 2) = NL THEN 3 ELSE 2
        flowmap == ParseFlowMap(text, skip + 1, <<>>)
    IN  IF Tok(text, skip) = EOF THEN Got(NoneVal, skip)
        ELSE IF Tok(text, skip) = Ind("{")
             THEN (IF flowmap.ok /\ EndOfLine(text, flowmap.next).ok
                      /\ Tok(text, EndOfLine(text, flowmap.next).next) = EOF
                   THEN flowmap ELSE Fail)
        ELSE ParseBlockMap(text, skip, <<>>)

(***************************************************************************)
(* The payloads the callers save.                                          *)
(***************************************************************************)
\* The mapping of the class's docstring example.
PExample ==
    Map(<<Pair(StrVal("a_list"), List(<<IntVal("1"), IntVal("2"), IntVal("3")>>)),
          Pair(StrVal("a_string"), StrVal("Hello, World!"))>>)
\* A string that looks like a number.
PDigits == Map(<<Pair(StrVal("a"), StrVal("1"))>>)
PEmpty == Map(<<>>)
\* A tuple: written with a python tag, which safe_load refuses.
PTuple == Map(<<Pair(StrVal("a"), Tuple(<<IntVal("1"), IntVal("2")>>))>>)
\* A generator: yaml.dump cannot represent it.
PGenerator == Map(<<Pair(StrVal("a"), Generator)>>)

Payloads == {PExample, PDigits, PEmpty, PTuple, PGenerator}

(***************************************************************************)
(* The file system: paths are sequences of names; every path of the model  *)
(* holds nothing, a directory, or a regular file with its text.            *)
(***************************************************************************)
Versions == 1..MaxVersion
\* The filepath the data set is constructed with, and another file that the
\* environment may put beside it.
FilePath == <<"out", "config.yml">>
OtherPath == <<"out", "other.yml">>

Name(p) == p[Len(p)]
Parent(p) == SubSeq(p, 1, Len(p) - 1)
Ancestors(p) == {SubSeq(p, 1, n) : n \in 1..(Len(p) - 1)}

\* filepath / version / filepath.name
VersionedPath(filepath, version) == filepath \o <<ToString(version), Name(filepath)>>

\* The paths a call may read or write.
Targets == {FilePath} \cup {VersionedPath(FilePath, n) : n \in Versions}
AllPaths == Targets \cup {OtherPath} \cup UNION {Ancestors(p) : p \in Targets}

NoEntry == [kind |-> "none", data |-> <<>>]
DirEntry == [kind |-> "dir", data |-> <<>>]
FileEntry(data) == [kind |-> "file", data |-> data]
EmptyFS == [p \in AllPaths |-> NoEntry]

IsFile(fsys, p) == fsys[p].kind = "file"
IsDir(fsys, p) == fsys[p].kind = "dir"

\* Path.mkdir(parents=False, exist_ok=True): the parent must be there.
MkdirNoParents(fsys, p) ==
    IF IsFile(fsys, p) \/ \E a \in Ancestors(p) : IsFile(fsys, a)
    THEN [kind |-> "WriteError", fs |-> fsys]
    ELSE IF Len(p) > 1 /\ ~IsDir(fsys, Parent(p))
    THEN [kind |-> "NotFoundError", fs |-> fsys]
    ELSE [kind |-> "ok", fs |-> [fsys EXCEPT ![p] = DirEntry]]

\* Path.mkdir(parents=True, exist_ok=True): every missing directory down to p
\* is created; a regular file in the way is an error.
Mkdir(fsys, p) ==
    IF IsFile(fsys, p) \/ \E a \in Ancestors(p) : IsFile(fsys, a)
    THEN [kind |-> "WriteError", fs |-> fsys]
    ELSE [kind |-> "ok",
          fs |-> [q \in AllPaths |-> IF q = p \/ q \in Ancestors(p) THEN DirEntry ELSE fsys[q]]]

\* os.open without O_TRUNC: the file is created if missing, nothing is
\* truncated, writing starts at offset 0.
OpenNoTruncate(fsys, p) ==
    IF IsDir(fsys, p) THEN [kind |-> "WriteError", fs |-> fsys, pos |-> 0]
    ELSE IF ~IsDir(fsys, Parent(p)) THEN [kind |-> "NotFoundError", fs |-> fsys, pos |-> 0]
    ELSE IF IsFile(fsys, p) THEN [kind |-> "ok", fs |-> fsys, pos |-> 0]
    ELSE [kind |-> "ok", fs |-> [fsys EXCEPT ![p] = FileEntry(<<>>)], pos |-> 0]

\* open("a"): the file is created if missing, nothing is truncated, writing
\* starts at the end.
OpenAppend(fsys, p) ==
    IF IsDir(fsys, p) THEN [kind |-> "WriteError", fs |-> fsys, pos |-> 0]
    ELSE IF ~IsDir(fsys, Parent(p)) THEN [kind |-> "NotFoundError", fs |-> fsys, pos |-> 0]
    ELSE IF IsFile(fsys, p) THEN [kind |-> "ok", fs |-> fsys, pos |-> Len(fsys[p].data)]
    ELSE [kind |-> "ok", fs |-> [fsys EXCEPT ![p] = FileEntry(<<>>)], pos |-> 0]

\* open("w"): the file is created if missing and truncated if present;
\* writing starts at offset 0.
OpenWrite(fsys, p) ==
    IF IsDir(fsys, p) THEN [kind |-> "WriteError", fs |-> fsys, pos |-> 0]
    ELSE IF ~IsDir(fsys, Parent(p)) THEN [kind |-> "NotFoundError", fs |-> fsys, pos |-> 0]
    ELSE [kind |-> "ok", fs |-> [fsys EXCEPT ![p] = FileEntry(<<>>)], pos |-> 0]

\* open("w+") where "r" was meant: a missing file is created.
OpenReadCreating(fsys, p) ==
    IF IsDir(fsys, p) THEN [kind |-> "IOError", fs |-> fsys]
    ELSE IF ~IsDir(fsys, Parent(p)) THEN [kind |-> "NotFoundError", fs |-> fsys]
    ELSE [kind |-> "ok", fs |-> [fsys EXCEPT ![p] = FileEntry(<<>>)]]

\* open("r"): a missing file is FileNotFoundError; nothing is changed.
OpenRead(fsys, p) ==
    IF IsDir(fsys, p) THEN [kind |-> "IOError", fs |-> fsys]
    ELSE IF ~IsFile(fsys, p) THEN [kind |-> "NotFoundError", fs |-> fsys]
    ELSE [kind |-> "ok", fs |-> fsys]

\* A write through an O_APPEND descriptor: always at the end of the file.
WriteAtEnd(old, pos, text) == old \o text

\* A write of text at offset pos of a file holding old: what lies under the
\* written range is replaced, what lies beyond it stays.
\* An offset beyond the end leaves a hole of NUL characters.
WriteAt(old, pos, text) ==
    LET before == IF pos <= Len(old) THEN SubSeq(old, 1, pos)
                  ELSE old \o [i \in 1..(pos - Len(old)) |-> Plain("NUL")]
    IN  before \o text \o SubSeq(old, pos + Len(text) + 1, Len(old))

(***************************************************************************)
(* The data set.                                                           *)
(***************************************************************************)
\* The versioning policy: none, or Version(load, save) where 0 stands for
\* None (load the latest version, save under an autogenerated one).
NoVersion == [on |-> FALSE, load |-> 0, save |-> 0]
Version(load, save) == [on |-> TRUE, load |-> load, save |-> save]
VersionInputs == {NoVersion} \cup {Version(l, s) : l \in 0..MaxVersion, s \in 0..MaxVersion}

\* The save_args a caller passes: none, or a mapping of yaml.dump options.
NoArgs == <<>>
SaveArgsInputs == {NoArgs, [default_flow_style |-> TRUE], [explicit_start |-> TRUE]}

\* DEFAULT_SAVE_ARGS with the flow style switched on.
DEFAULT_SAVE_ARGS_FLOW == [default_flow_style |-> TRUE]

DEFAULT_SAVE_ARGS == [default_flow_style |-> FALSE]

\* The defaults overridden key by key with what the caller passed.
MergeArgs(defaults, given) ==
    [name \in DOMAIN defaults \cup DOMAIN given |->
        IF name \in DOMAIN given THEN given[name] ELSE defaults[name]]

__init__(filepath, save_args, version) ==
    [filepath |-> filepath,
     save_args |-> MergeArgs(DEFAULT_SAVE_ARGS, save_args),
     version |-> version]

\* The versions that have a file.
ExistingVersions(fsys, hd) ==
    {n \in Versions : IsFile(fsys, VersionedPath(hd.filepath, n))}
Latest(S) == CHOOSE n \in S : \A m \in S : m <= n

\* The path to read: the filepath itself without versioning, the pinned
\* version, or the latest version that has a file.
_get_load_path(fsys, hd) ==
    IF ~hd.version.on THEN [kind |-> "ok", path |-> hd.filepath]
    ELSE IF hd.version.load # 0
    THEN [kind |-> "ok", path |-> VersionedPath(hd.filepath, hd.version.load)]
    ELSE IF ExistingVersions(fsys, hd) = {}
    THEN [kind |-> "NoVersionAvailable", path |-> <<>>]
    ELSE [kind |-> "ok", path |-> VersionedPath(hd.filepath, Latest(ExistingVersions(fsys, hd)))]

\* The path to write: the filepath itself without versioning, the pinned
\* version, or the version autogenerated from the clock (now).
_get_save_path(hd, now) ==
    IF ~hd.version.on THEN hd.filepath
    ELSE IF hd.version.save # 0 THEN VersionedPath(hd.filepath, hd.version.save)
    ELSE VersionedPath(hd.filepath, now)

\* The clock does not run backwards: an autogenerated version is not older
\* than a version that already has a directory.
ClockValues(fsys, hd) ==
    {n \in Versions : \A m \in Versions :
        IsDir(fsys, Parent(VersionedPath(hd.filepath, m))) => m <= n}

\* What a call has touched: the path resolver, the codec, the file system.
NoCalls == {}

\* A _describe that reports the resolved load path.
_describe_resolved(fsys, hd) ==
    [val |-> [filepath |-> _get_load_path(fsys, hd).path,
              save_args |-> hd.save_args, version |-> hd.version],
     calls |-> {"resolver"}]

_describe(fsys, hd) ==
    [val |-> [filepath |-> hd.filepath, save_args |-> hd.save_args, version |-> hd.version],
     calls |-> NoCalls]

\* _exists with the file opened instead of tested.
_exists_by_open(fsys, hd) ==
    LET lp == _get_load_path(fsys, hd)
    IN  IF lp.kind # "ok" THEN [kind |-> lp.kind, b |-> FALSE]
        ELSE IF OpenRead(fsys, lp.path).kind # "ok"
        THEN [kind |-> OpenRead(fsys, lp.path).kind, b |-> FALSE]
        ELSE [kind |-> "bool", b |-> TRUE]

\* _exists with is_dir where is_file was meant.
_exists_is_dir(fsys, hd) ==
    LET lp == _get_load_path(fsys, hd)
    IN  IF lp.kind # "ok" THEN [kind |-> lp.kind, b |-> FALSE]
        ELSE [kind |-> "bool", b |-> IsDir(fsys, lp.path)]

\* _exists: a failure of the resolver propagates.
_exists(fsys, hd) ==
    LET lp == _get_load_path(fsys, hd)
    IN  IF lp.kind # "ok" THEN [kind |-> lp.kind, b |-> FALSE]
        ELSE [kind |-> "bool", b |-> IsFile(fsys, lp.path)]

\* The public exists(): "no version yet" is answered with false.
exists(fsys, hd) ==
    IF _exists(fsys, hd).kind = "NoVersionAvailable" THEN [kind |-> "bool", b |-> FALSE]
    ELSE _exists(fsys, hd)

\* _load, first half: resolve the path and open it for reading.
_load_open(fsys, hd) ==
    LET lp == _get_load_path(fsys, hd)
    IN  IF lp.kind # "ok" THEN [kind |-> lp.kind, path |-> <<>>, fs |-> fsys]
        ELSE [kind |-> OpenRead(fsys, lp.path).kind, path |-> lp.path,
              fs |-> OpenRead(fsys, lp.path).fs]

\* _load, second half: yaml.safe_load on the open file.
_load_parse(fsys, p) ==
    IF Parse(fsys[p].data).ok THEN [kind |-> "value", val |-> Parse(fsys[p].data).val]
    ELSE [kind |-> "ParseError", val |-> NoneVal]

\* _save, first step: resolve the path and create its parent directories.
_save_mkdir(fsys, hd, now) ==
    LET sp == _get_save_path(hd, now)
    IN  [kind |-> Mkdir(fsys, Parent(sp)).kind, path |-> sp, fs |-> Mkdir(fsys, Parent(sp)).fs]

\* _save, second step: open the path for writing.
_save_open(fsys, p) == OpenWrite(fsys, p)

\* _save, third step: yaml.dump(data, local_file, **save_args).  The payload
\* is represented first; the text reaches the file in one write at the
\* handle's offset, or not at all when the device fails (io_fails).
_save_dump(fsys, p, pos, data, opts, io_fails) ==
    IF ~Representable(data) THEN [kind |-> "SerializationError", fs |-> fsys, wrote |-> FALSE]
    ELSE IF io_fails THEN [kind |-> "WriteError", fs |-> fsys, wrote |-> FALSE]
    ELSE [kind |-> "ok", wrote |-> TRUE,
          fs |-> [fsys EXCEPT ![p] = FileEntry(WriteAt(fsys[p].data, pos, Emit(data, opts)))]]

\* A file handle of a caller.
Closed == [open |-> FALSE, path |-> <<>>, pos |-> 0]
Opened(p, pos) == [open |-> TRUE, path |-> p, pos |-> pos]

\* A handle closed only when the block ends without an exception.
_close_on_success(fh, kind) == IF kind \in {"ok", "value"} THEN Closed ELSE fh

\* The end of a "with" block: the handle is closed, however the block ended.
_with_exit(fh, kind) == Closed

(***************************************************************************)
(* The state.                                                              *)
(***************************************************************************)
Callers == {"c1", "c2"}
MainCaller == "c1"

VARIABLES
    ctor,        \* the arguments the data set was constructed with
    handle,      \* the data set: filepath, effective save_args, version
    fs,          \* the file system
    pc,          \* per caller: where its call stands
    op,          \* per caller: the operation of its current or last call
    data,        \* per caller: the payload of its save
    path,        \* per caller: the path its call resolved
    fh,          \* per caller: its file handle
    result,      \* per caller: what its call returned or raised
    io,          \* per caller: what its call has touched so far
    prev,        \* per caller: its call before the current one
    lastSave,    \* per target: the last save that opened it
    lastWriter,  \* per target: the caller whose write reached it last
    maxLen,      \* per target: the greatest length its text ever had
    saveStarted, \* whether any save has been called
    ncalls       \* the calls made so far

vars == <<ctor, handle, fs, pc, op, data, path, fh, result, io, prev,
          lastSave, lastWriter, maxLen, saveStarted, ncalls>>

NoResult == [kind |-> "none", val |-> NoneVal, b |-> FALSE]
Raised(kind) == [kind |-> kind, val |-> NoneVal, b |-> FALSE]
NoPrev == [op |-> "none", kind |-> "none", path |-> <<>>]

Init ==
    /\ ctor \in [filepath : {FilePath}, save_args : SaveArgsInputs, version : VersionInputs]
    /\ handle = __init__(ctor.filepath, ctor.save_args, ctor.version)
    /\ fs = EmptyFS
    /\ pc = [c \in Callers |-> "idle"]
    /\ op = [c \in Callers |-> "none"]
    /\ data = [c \in Callers |-> NoneVal]
    /\ path = [c \in Callers |-> <<>>]
    /\ fh = [c \in Callers |-> Closed]
    /\ result = [c \in Callers |-> NoResult]
    /\ io = [c \in Callers |-> NoCalls]
    /\ prev = [c \in Callers |-> NoPrev]
    /\ lastSave = [p \in Targets |-> [ok |-> FALSE, data |-> NoneVal]]
    /\ lastWriter = [p \in Targets |-> "nobody"]
    /\ maxLen = [p \in Targets |-> 0]
    /\ saveStarted = FALSE
    /\ ncalls = 0

(***************************************************************************)
(* A caller starts a call.                                                 *)
(***************************************************************************)
Call(c, o, d) ==
    /\ pc[c] \in {"idle", "done"}
    /\ ncalls < MaxCalls
    /\ ncalls' = ncalls + 1
    /\ pc' = [pc EXCEPT ![c] = o]
    /\ op' = [op EXCEPT ![c] = o]
    /\ data' = [data EXCEPT ![c] = d]
    /\ prev' = [prev EXCEPT ![c] = [op |-> op[c], kind |-> result[c].kind, path |-> path[c]]]
    /\ path' = [path EXCEPT ![c] = <<>>]
    /\ result' = [result EXCEPT ![c] = NoResult]
    /\ io' = [io EXCEPT ![c] = NoCalls]
    /\ saveStarted' = (saveStarted \/ o = "save")
    /\ UNCHANGED <<ctor, handle, fs, fh, lastSave, lastWriter, maxLen>>

CallSave(c) == \E d \in Payloads : Call(c, "save", d)
CallLoad(c) == Call(c, "load", NoneVal)
CallExists(c) == Call(c, "exists", NoneVal)
CallDescribe(c) == Call(c, "describe", NoneVal)

Return(c, r) ==
    /\ pc' = [pc EXCEPT ![c] = "done"]
    /\ result' = [result EXCEPT ![c] = r]

(***************************************************************************)
(* describe() and exists(): one step each.                                 *)
(***************************************************************************)
Describe(c) ==
    /\ pc[c] = "describe"
    /\ Return(c, [kind |-> "description", val |-> _describe(fs, handle).val, b |-> FALSE])
    /\ io' = [io EXCEPT ![c] = _describe(fs, handle).calls]
    /\ UNCHANGED <<ctor, handle, fs, op, data, path, fh, prev, lastSave, lastWriter,
                   maxLen, saveStarted, ncalls>>

Exists(c) ==
    /\ pc[c] = "exists"
    /\ Return(c, [kind |-> exists(fs, handle).kind, val |-> NoneVal, b |-> exists(fs, handle).b])
    /\ io' = [io EXCEPT ![c] = {"resolver", "fs"}]
    /\ UNCHANGED <<ctor, handle, fs, op, data, path, fh, prev, lastSave, lastWriter,
                   maxLen, saveStarted, ncalls>>

(***************************************************************************)
(* load(): resolve and open; then parse and leave the "with" block.        *)
(***************************************************************************)
LoadOpen(c) ==
    LET r == _load_open(fs, handle)
    IN  /\ pc[c] = "load"
        /\ fs' = r.fs
        /\ path' = [path EXCEPT ![c] = r.path]
        /\ io' = [io EXCEPT ![c] = {"resolver", "fs"}]
        /\ IF r.kind = "ok"
           THEN /\ fh' = [fh EXCEPT ![c] = Opened(r.path, 0)]
                /\ pc' = [pc EXCEPT ![c] = "load_parse"]
                /\ UNCHANGED result
           ELSE /\ Return(c, Raised(r.kind))
                /\ UNCHANGED fh
        /\ UNCHANGED <<ctor, handle, op, data, prev, lastSave, lastWriter, maxLen, saveStarted, ncalls>>

LoadParse(c) ==
    LET r == _load_parse(fs, fh[c].path)
    IN  /\ pc[c] = "load_parse"
        /\ Return(c, [kind |-> r.kind, val |-> r.val, b |-> FALSE])
        /\ fh' = [fh EXCEPT ![c] = _with_exit(fh[c], r.kind)]
        /\ io' = [io EXCEPT ![c] = io[c] \cup {"codec"}]
        /\ UNCHANGED <<ctor, handle, fs, op, data, path, prev, lastSave, lastWriter,
                       maxLen, saveStarted, ncalls>>

(***************************************************************************)
(* save(): resolve and create the directories; open and truncate; dump;    *)
(* leave the "with" block.                                                 *)
(***************************************************************************)
SaveMkdir(c) ==
    /\ pc[c] = "save"
    /\ \E now \in ClockValues(fs, handle) :
         LET r == _save_mkdir(fs, handle, now)
         IN  /\ fs' = r.fs
             /\ path' = [path EXCEPT ![c] = r.path]
             /\ IF r.kind = "ok"
                THEN pc' = [pc EXCEPT ![c] = "save_open"] /\ UNCHANGED result
                ELSE Return(c, Raised(r.kind))
    /\ io' = [io EXCEPT ![c] = {"resolver", "fs"}]
    /\ UNCHANGED <<ctor, handle, op, data, fh, prev, lastSave, lastWriter, maxLen, saveStarted, ncalls>>

SaveOpen(c) ==
    LET r == _save_open(fs, path[c])
    IN  /\ pc[c] = "save_open"
        /\ fs' = r.fs
        /\ IF r.kind = "ok"
           THEN /\ fh' = [fh EXCEPT ![c] = Opened(path[c], r.pos)]
                /\ pc' = [pc EXCEPT ![c] = "save_dump"]
                /\ UNCHANGED result
           ELSE /\ Return(c, Raised(r.kind))
                /\ UNCHANGED fh
        /\ UNCHANGED <<ctor, handle, op, data, path, io, prev, lastSave, lastWriter,
                       maxLen, saveStarted, ncalls>>

SaveDump(c) ==
    /\ pc[c] = "save_dump"
    /\ \E io_fails \in BOOLEAN :
         LET r == _save_dump(fs, fh[c].path, fh[c].pos, data[c], handle.save_args, io_fails)
         IN  /\ fs' = r.fs
             /\ result' = [result EXCEPT ![c] = [kind |-> r.kind, val |-> NoneVal, b |-> FALSE]]
             /\ lastWriter' = IF r.wrote THEN [lastWriter EXCEPT ![fh[c].path] = c]
                              ELSE lastWriter
             /\ maxLen' = IF r.wrote /\ Len(r.fs[fh[c].path].data) > maxLen[fh[c].path]
                          THEN [maxLen EXCEPT ![fh[c].path] = Len(r.fs[fh[c].path].data)]
                          ELSE maxLen
             /\ fh' = IF r.wrote
                      THEN [fh EXCEPT ![c].pos = fh[c].pos + Len(Emit(data[c], handle.save_args))]
                      ELSE fh
    /\ pc' = [pc EXCEPT ![c] = "save_close"]
    /\ io' = [io EXCEPT ![c] = io[c] \cup {"codec"}]
    /\ UNCHANGED <<ctor, handle, op, data, path, prev, lastSave, saveStarted, ncalls>>

SaveClose(c) ==
    /\ pc[c] = "save_close"
    /\ fh' = [fh EXCEPT ![c] = _with_exit(fh[c], result[c].kind)]
    /\ pc' = [pc EXCEPT ![c] = "done"]
    /\ lastSave' = [lastSave EXCEPT ![path[c]] =
                      IF result[c].kind = "ok" THEN [ok |-> TRUE, data |-> data[c]]
                      ELSE [ok |-> FALSE, data |-> lastSave[path[c]].data]]
    /\ UNCHANGED <<ctor, handle, fs, op, data, path, result, io, prev, lastWriter,
                   maxLen, saveStarted, ncalls>>

(***************************************************************************)
(* The environment puts another file beside the data set's.                *)
(***************************************************************************)
OtherText == Emit(PDigits, [default_flow_style |-> TRUE])

EnvCreateSibling ==
    /\ fs[OtherPath].kind = "none"
    /\ fs' = [Mkdir(fs, Parent(OtherPath)).fs EXCEPT ![OtherPath] = FileEntry(OtherText)]
    /\ UNCHANGED <<ctor, handle, pc, op, data, path, fh, result, io, prev,
                   lastSave, lastWriter, maxLen, saveStarted, ncalls>>

(***************************************************************************)
(* Spec: one caller makes its calls one after the other.                   *)
(* SpecConc: two callers make one save() each, their steps interleaved.    *)
(***************************************************************************)
Next ==
    \/ CallSave(MainCaller)
    \/ SaveMkdir(MainCaller)
    \/ SaveOpen(MainCaller)
    \/ SaveDump(MainCaller)
    \/ SaveClose(MainCaller)
    \/ CallLoad(MainCaller)
    \/ LoadOpen(MainCaller)
    \/ LoadParse(MainCaller)
    \/ CallExists(MainCaller)
    \/ Exists(MainCaller)
    \/ CallDescribe(MainCaller)
    \/ Describe(MainCaller)
    \/ EnvCreateSibling

Spec == Init /\ [][Next]_vars

SaveOnce(c) == pc[c] = "idle" /\ CallSave(c)

NextConc ==
    \E c \in Callers :
       \/ SaveOnce(c)
       \/ SaveMkdir(c)
       \/ SaveOpen(c)
       \/ SaveDump(c)
       \/ SaveClose(c)

SpecConc == Init /\ [][NextConc]_vars

TypeOK ==
    /\ \A c \in Callers : pc[c] \in {"idle", "done", "describe", "exists", "load",
                                     "load_parse", "save", "save_open", "save_dump", "save_close"}
    /\ ncalls \in 0..MaxCalls

(***************************************************************************)
(* Properties.                                                             *)
(***************************************************************************)
Done(c, o) == pc[c] = "done" /\ op[c] = o

\* A payload made of mappings, sequences and scalars only.
RECURSIVE IsPlain(_)
IsPlain(val) ==
    /\ val.t \in {"map", "pair", "list", "str", "int", "none"}
    /\ \A i \in 1..Len(val.v) : IsPlain(val.v[i])

\* C1: on a non-versioned data set, a load() that follows a successful
\* save(P) of a plain payload P returns a value equal to P, whatever was
\* saved before.
RoundTrip ==
    (/\ Done(MainCaller, "load")
     /\ ~handle.version.on
     /\ lastSave[FilePath].ok
     /\ IsPlain(lastSave[FilePath].data))
    => (/\ result[MainCaller].kind = "value"
        /\ result[MainCaller].val = lastSave[FilePath].data)

\* A load returned the payload of the last save although a longer text had
\* been in the file before.
RoundTripAfterLonger ==
    /\ Done(MainCaller, "load")
    /\ ~handle.version.on
    /\ lastSave[FilePath].ok
    /\ result[MainCaller].kind = "value"
    /\ result[MainCaller].val = PDigits
    /\ maxLen[FilePath] > Len(fs[FilePath].data)

\* The exists() call is the one right after a successful save().
AfterGoodSave(c) == prev[c].op = "save" /\ prev[c].kind = "ok"

\* C2 as stated: exists() is false while no save() has been called and true
\* right after a successful save().
ExistsTracksSave ==
    Done(MainCaller, "exists")
    => (/\ result[MainCaller].kind = "bool"
        /\ ~saveStarted => ~result[MainCaller].b
        /\ AfterGoodSave(MainCaller) => result[MainCaller].b)

\* The load policy reads what save wrote: no versioning, the latest version,
\* or the version pinned for loading is the one just saved.
LoadsWhatWasSaved(c) ==
    \/ ~handle.version.on
    \/ handle.version.load = 0
    \/ VersionedPath(handle.filepath, handle.version.load) = prev[c].path

\* C2 amended: exists() is false while no save() has been called, and true
\* right after a successful save() when the load policy reads what save
\* wrote.
ExistsTracksSaveSamePath ==
    Done(MainCaller, "exists")
    => (/\ result[MainCaller].kind = "bool"
        /\ ~saveStarted => ~result[MainCaller].b
        /\ (AfterGoodSave(MainCaller) /\ LoadsWhatWasSaved(MainCaller))
              => result[MainCaller].b)

\* exists() answered true right after a save under a pinned version.
ExistsAfterPinnedSave ==
    /\ Done(MainCaller, "exists")
    /\ AfterGoodSave(MainCaller)
    /\ handle.version.on
    /\ handle.version.load # 0
    /\ result[MainCaller].b

\* C3: a load() whose resolved path holds no file raises NotFoundError,
\* returns no payload, holds no handle and leaves the file system as it was.
LoadOfMissingFile ==
    [][(/\ pc[MainCaller] = "load"
        /\ pc'[MainCaller] # "load"
        /\ path'[MainCaller] # <<>>
        /\ ~IsFile(fs, path'[MainCaller]))
       => (/\ pc'[MainCaller] = "done"
           /\ result'[MainCaller] = Raised("NotFoundError")
           /\ result'[MainCaller].kind \notin {"ParseError", "IOError", "value"}
           /\ ~fh'[MainCaller].open
           /\ fs' = fs)]_vars

\* A load() of a pinned version that has no file ended in NotFoundError.
LoadRaisedNotFound ==
    /\ Done(MainCaller, "load")
    /\ path[MainCaller] # <<>>
    /\ ~IsFile(fs, path[MainCaller])
    /\ result[MainCaller].kind = "NotFoundError"

\* C4: exists() never raises; when the resolver finds no version, it
\* answers false.
ExistsNeverRaises ==
    Done(MainCaller, "exists")
    => (/\ result[MainCaller].kind = "bool"
        /\ _get_load_path(fs, handle).kind = "NoVersionAvailable" => ~result[MainCaller].b)

\* exists() answered false while the resolver had no version to offer.
ExistsWithoutVersion ==
    /\ Done(MainCaller, "exists")
    /\ handle.version.on
    /\ _get_load_path(fs, handle).kind = "NoVersionAvailable"
    /\ result[MainCaller] = [kind |-> "bool", val |-> NoneVal, b |-> FALSE]

\* A save() is past its mkdir step.
PastMkdir(c) ==
    /\ op[c] = "save"
    /\ pc[c] \in {"save_open", "save_dump", "save_close", "done"}
    /\ path[c] # <<>>

\* C5: once save() has created the parent directories every ancestor of the
\* resolved path is a directory; a save() of a representable payload fails
\* only if the device fails, and a save() that succeeded left the file in
\* place; no step of save() changes a directory that was already there, or
\* any entry other than the target and its ancestors.
SaveCreatesParents ==
    /\ [](PastMkdir(MainCaller)
            => \A a \in Ancestors(path[MainCaller]) : IsDir(fs, a))
    /\ [](Done(MainCaller, "save")
            => (/\ Representable(data[MainCaller])
                      => result[MainCaller].kind \in {"ok", "WriteError"}
                /\ result[MainCaller].kind = "ok" => IsFile(fs, path[MainCaller])))
    /\ [][(pc[MainCaller] \in {"save", "save_open", "save_dump", "save_close"}
           /\ pc'[MainCaller] # pc[MainCaller])
          => \A q \in AllPaths :
                (IsDir(fs, q) \/ q \notin {path'[MainCaller]} \cup Ancestors(path'[MainCaller]))
                   => fs'[q] = fs[q]]_vars

\* The first call, a save() under a version, succeeded: three levels of
\* directories were created, beside a file that was already there.
SavedIntoNewDirectories ==
    /\ Done(MainCaller, "save")
    /\ ncalls = 1
    /\ handle.version.on
    /\ result[MainCaller].kind = "ok"
    /\ IsFile(fs, path[MainCaller])
    /\ fs[OtherPath] = FileEntry(OtherText)

\* C6: the effective save_args are {default_flow_style: False} overridden
\* key by key with the caller's save_args.
MergedOptions ==
    /\ DOMAIN handle.save_args = {"default_flow_style"} \cup DOMAIN ctor.save_args
    /\ \A name \in DOMAIN handle.save_args :
          handle.save_args[name] =
             IF name \in DOMAIN ctor.save_args THEN ctor.save_args[name] ELSE FALSE
    /\ ctor.save_args = NoArgs => handle.save_args = [default_flow_style |-> FALSE]
    /\ "default_flow_style" \notin DOMAIN ctor.save_args
          => ~handle.save_args["default_flow_style"]

\* A data set constructed with another option only saved the docstring's
\* example in block style.
MergedOtherOption ==
    /\ ctor.save_args = [explicit_start |-> TRUE]
    /\ handle.save_args = [default_flow_style |-> FALSE, explicit_start |-> TRUE]
    /\ ~handle.version.on
    /\ Done(MainCaller, "save")
    /\ result[MainCaller].kind = "ok"
    /\ data[MainCaller] = PExample
    /\ Tok(fs[FilePath].data, 1) = DocStart
    /\ Ind("{") \notin {fs[FilePath].data[i] : i \in 1..Len(fs[FilePath].data)}

\* C7: describe() returns exactly filepath, save_args and version, calls
\* neither the resolver nor the codec, and leaves files and handles alone.
DescribeNoIO ==
    /\ [](Done(MainCaller, "describe")
            => (/\ result[MainCaller].kind = "description"
                /\ result[MainCaller].val =
                      [filepath |-> ctor.filepath, save_args |-> handle.save_args,
                       version |-> ctor.version]
                /\ io[MainCaller] = {}))
    /\ [][(pc[MainCaller] = "describe" /\ pc'[MainCaller] # "describe")
          => (fs' = fs /\ fh' = fh)]_vars

\* describe() returned while the resolver had no version to offer.
DescribedWithoutVersion ==
    /\ Done(MainCaller, "describe")
    /\ result[MainCaller].kind = "description"
    /\ _get_load_path(fs, handle).kind = "NoVersionAvailable"

\* C8: a caller that is not inside load() or save() holds no open file
\* handle.
HandlesReleased ==
    \A c \in Callers : pc[c] \in {"idle", "done"} => ~fh[c].open

\* A save() ended in a write failure right after a load() ended in a parse
\* failure, and no handle is open.
FailedCallsReleased ==
    /\ Done(MainCaller, "save")
    /\ result[MainCaller].kind = "WriteError"
    /\ prev[MainCaller].op = "load"
    /\ prev[MainCaller].kind = "ParseError"
    /\ \A c \in Callers : ~fh[c].open

\* Both callers have returned from a successful save() to the same path.
BothSaved(p) ==
    /\ \A c \in Callers : Done(c, "save") /\ result[c].kind = "ok" /\ path[c] = p
    /\ lastWriter[p] \in Callers

TextOf(c) == Emit(data[c], handle.save_args)
OtherCaller(c) == CHOOSE d \in Callers : d # c

\* C9 as stated: once both saves have returned, the file holds exactly the
\* text of the caller that wrote last.
LastWriterWins ==
    \A p \in Targets :
       BothSaved(p) => fs[p].data = TextOf(lastWriter[p])

\* x, and what of y lies beyond the length of x.
Overlay(x, y) == x \o SubSeq(y, Len(x) + 1, Len(y))

\* C9 amended: once both saves have returned, the file begins with the whole
\* text of the caller that wrote last; what follows is nothing, or the part
\* of the other caller's text that lies beyond it.
LastWriterWinsPrefix ==
    \A p \in Targets :
       BothSaved(p)
       => fs[p].data \in {TextOf(lastWriter[p]),
                          Overlay(TextOf(lastWriter[p]), TextOf(OtherCaller(lastWriter[p])))}

\* Both saves have returned and the file holds a mixture: the last writer's
\* text and the tail of the other's.
MixedContent ==
    \E p \in Targets :
       /\ BothSaved(p)
       /\ fs[p].data # TextOf(lastWriter[p])
       /\ fs[p].data = Overlay(TextOf(lastWriter[p]), TextOf(OtherCaller(lastWriter[p])))

\* The call right before was a save() that raised SerializationError.
AfterFailedSave(c) == prev[c].op = "save" /\ prev[c].kind = "SerializationError"

\* What a save() that raised SerializationError leaves behind: the target is
\* an empty file; a payload saved there before is no longer its content.
FailedSaveLeaves(c) ==
    (Done(c, "save") /\ result[c].kind = "SerializationError")
    => (/\ IsFile(fs, path[c])
        /\ fs[path[c]].data = <<>>
        /\ lastSave[path[c]].data # NoneVal
              => Parse(fs[path[c]].data).val # lastSave[path[c]].data)

\* C10 as stated: after a save() that raised SerializationError the target
\* exists and has lost its content, exists() returns true and load() does
\* not return the payload saved there before.
SaveNotAtomic ==
    /\ FailedSaveLeaves(MainCaller)
    /\ (Done(MainCaller, "exists") /\ AfterFailedSave(MainCaller))
          => result[MainCaller].b
    /\ (Done(MainCaller, "load") /\ AfterFailedSave(MainCaller)
        /\ lastSave[prev[MainCaller].path].data # NoneVal)
          => ~(/\ result[MainCaller].kind = "value"
               /\ result[MainCaller].val = lastSave[prev[MainCaller].path].data)

\* The load path resolves to the path p.
LoadResolvesTo(p) == _get_load_path(fs, handle) = [kind |-> "ok", path |-> p]

\* C10 amended: the same, for the exists() and load() whose load path
\* resolves to the target of the failed save.
SaveNotAtomicSamePath ==
    /\ FailedSaveLeaves(MainCaller)
    /\ (Done(MainCaller, "exists") /\ AfterFailedSave(MainCaller)
        /\ LoadResolvesTo(prev[MainCaller].path))
          => result[MainCaller].b
    /\ (Done(MainCaller, "load") /\ AfterFailedSave(MainCaller)
        /\ LoadResolvesTo(prev[MainCaller].path)
        /\ lastSave[prev[MainCaller].path].data # NoneVal)
          => (/\ result[MainCaller].kind = "value"
              /\ result[MainCaller].val = NoneVal)

\* A payload was saved, the next save() raised SerializationError, and the
\* load() after it returned None.
LoadAfterFailedSave ==
    /\ Done(MainCaller, "load")
    /\ AfterFailedSave(MainCaller)
    /\ LoadResolvesTo(prev[MainCaller].path)
    /\ lastSave[prev[MainCaller].path].data = PExample
    /\ result[MainCaller].kind = "value"
    /\ result[MainCaller].val = NoneVal
====
